---- MODULE Spec2Model ----
(***************************************************************************)
(* Model of file_server_box_sync: the sliding-window RateLimiter           *)
(* (http_client.py), its use by SentinelBoxClient.make_request and by      *)
(* request(), and the SentinelDirectory registry with its reconciliation   *)
(* scan and watchdog event dispatch (directory.py).                        *)
(*                                                                         *)
(* Time is an integer clock; time.time() reads it.                         *)
(***************************************************************************)
EXTENDS Integers, Sequences, FiniteSets, TLC

\* ------------------------------------------------------------- bounds
\* Last clock value the model lets time.time() reach.
MaxTime == 5
\* rate_limit is drawn from 1..MaxRateLimit at construction.
MaxRateLimit == 2
\* rate_period is drawn from 1..MaxRatePeriod at construction.
MaxRatePeriod == 2
\* Last clock value when several callers share the limiter.
MaxSharedTime == 3
\* Callers (threads or coroutines) that may share one RateLimiter.
NumCallers == 2
\* Grants recorded in the history before no further call is started.
MaxGrants == 5

\* Changes the file system undergoes in a run.
MaxFsChanges == 1

Callers == 1..NumCallers

\* Path segments are sequences of characters, paths sequences of segments.
SegR == <<"r">>
SegS == <<"s">>
NameC == <<"a", "b", ".", "c">>
NameT == <<"a", "b", ".", "t">>
ExtT == <<".", "t">>

\* file_system_path and the one directory below it.
RootPath == <<SegR>>
SubPath == <<SegR, SegS>>
\* Variant: the walk does not descend below file_system_path.
WalkRootOnly == <<RootPath>>

\* Top-down order in which os.walk visits the tree (directory.py:316).
WalkOrder == <<RootPath, SubPath>>
DirPaths == {RootPath, SubPath}
\* The files that may exist under file_system_path.
FilePaths == {<<SegR, NameC>>, <<SegR, SegS, NameC>>, <<SegR, NameT>>}

\* Filter rule sets a SentinelDirectory may be built with
\* (directory.py:47-51, 76-80).
NoRules ==
    [ignored_files |-> {}, ignored_extensions |-> {},
     ignored_directories |-> {}, included_file_prefix |-> {},
     included_directories |-> {}]
Configs == {NoRules,
            [NoRules EXCEPT !.ignored_extensions = {ExtT},
                            !.ignored_directories = {SegS}]}

DirEventKinds == {"DirCreated", "DirDeleted", "DirModified", "DirMoved"}
FileEventKinds == {"FileCreated", "FileDeleted", "FileModified", "FileMoved"}

VARIABLES
    \* RateLimiter fields (http_client.py:43-46)
    rate_limit, rate_period, request_pool,
    \* the wall clock read by time.time(), and the last value it takes
    clock, horizon,
    \* callers of the limiter: which exist, where each stands in
    \* _limiter / _async_limiter, its local `now`, the time.time() it read
    \* for append, the form it called, whether it slept in the current call
    callers, pc, now, stamp, form, waited,
    \* the coroutine the event loop is running (0: none)
    running,
    \* history: every grant appended to request_pool, oldest first, and
    \* the forms of acquire that were granted
    grants, forms_granted,
    \* reference limiter fed the same calls through the async form only
    shadow_pool, shadow_grants,
    \* SentinelDirectory: its filter rule sets and its registry
    \* (directory.py:73-80)
    config, sentinel_files,
    \* the file system: for each path whether the file is absent, present
    \* ("ok"), or present with content the sentinel file type fails on
    \* ("bad")
    disk,
    \* watchdog events observed and not yet dispatched, oldest first
    events,
    \* changes the file system has undergone
    fs_changes,
    \* monitor_sentinel_files: its position, the directories os.walk has
    \* still to visit, the directory being visited and its files still to
    \* visit, the file at hand, and its list of new files
    scan_pc, scan_dirs, scan_root, scan_files, scan_path, new_sentinel_files,
    \* history: the registry when the running (or last) scan started (kept
    \* until an event is dispatched), what happened since that start (a file
    \* system change, a dispatch, a removal by a dispatch, an event dropped
    \* by dispatch), and
    \* whether nothing had happened between the start of the scan before
    \* and that start
    files_at_start, since_start, prev_clean,
    \* a SentinelFile object (files/sentinel_file.py:100-136), the files
    \* on disk with their sizes, and what the last call on the object
    \* returned
    file, fs, ret,
    \* where each consumer stands in upload_to_box
    uploading,
    \* history: a stat read of the file has succeeded, a delete of it has
    \* succeeded, the renames it has undergone
    stat_succeeded, delete_succeeded, renames,
    \* the calls made on the object
    calls

limVars == <<rate_limit, rate_period, request_pool, clock, horizon, callers,
             pc, now, stamp, form, waited, running, grants, forms_granted,
             shadow_pool, shadow_grants>>

dirVars == <<config, sentinel_files, disk, events, fs_changes, scan_pc, scan_dirs,
             scan_root, scan_files, scan_path, new_sentinel_files,
             files_at_start, since_start, prev_clean>>

fileVars == <<file, fs, ret, uploading, stat_succeeded, delete_succeeded,
              renames, calls>>

vars == <<limVars, dirVars, fileVars>>

\* ------------------------------------------------------------ helpers
\* Variant: a timestamp exactly one period old already counts as expired.
ExpiredAtBoundary(n, head, period) == n - head >= period

\* http_client.py:55  now - self._request_pool[0] > self._rate_period
Expired(n, head, period) == n - head > period

\* Variant: a full window still admits one more grant.
HasCapacityInclusive(pool, limit) == Len(pool) <= limit

\* http_client.py:60  len(self._request_pool) < self._rate_limit
HasCapacity(pool, limit) == Len(pool) < limit

\* Variant: the suspending form expires a timestamp one period old.
AsyncExpiredAtBoundary(n, head, period) == n - head >= period

\* http_client.py:80
AsyncExpired(n, head, period) == n - head > period

\* http_client.py:85
AsyncHasCapacity(pool, limit) == Len(pool) < limit

\* http_client.py:79-83: the inner while loop of _async_limiter; no await
\* separates its iterations, so it runs to its end in one step.
RECURSIVE AsyncPrune(_, _, _)
AsyncPrune(pool, n, period) ==
    IF pool # <<>> /\ AsyncExpired(n, Head(pool), period)
    THEN AsyncPrune(Tail(pool), n, period)
    ELSE pool

\* The grant times of a history.
Times(h) == [i \in DOMAIN h |-> h[i].at]

\* Number of grants of history h in the closed window [t - period, t].
WindowCount(h, t, period) ==
    Cardinality({i \in DOMAIN h : t - period <= h[i].at /\ h[i].at <= t})

\* Callers inside the with / async with block: admitted, not yet completed.
InFlight == {c \in callers : pc[c] = "granted"}

\* ---------------------------------------------------------------- Init
\* RateLimiter.__init__ (http_client.py:40-46) with `n` callers sharing it.
LimiterInit(n, h) ==
    /\ rate_limit \in 1..MaxRateLimit
    /\ rate_period \in 1..MaxRatePeriod
    /\ request_pool = <<>>
    /\ clock = 0
    /\ horizon = h
    /\ callers = 1..n
    /\ pc = [c \in Callers |-> "idle"]
    /\ now = [c \in Callers |-> 0]
    /\ stamp = [c \in Callers |-> 0]
    /\ form = [c \in Callers |-> "sync"]
    /\ waited = [c \in Callers |-> FALSE]
    /\ running = 0
    /\ grants = <<>>
    /\ forms_granted = {}
    /\ shadow_pool = <<>>
    /\ shadow_grants = <<>>

\* ------------------------------------------------------------- actions
\* The limiter's construction arguments and the set of callers never change.
fixed == <<rate_limit, rate_period, horizon, callers>>
history == <<grants, forms_granted>>

\* The reference limiter runs beside a single caller only.
Shadowed == Cardinality(callers) = 1

\* Time passes.
Tick ==
    /\ clock < horizon
    /\ clock' = clock + 1
    /\ UNCHANGED <<fileVars, dirVars, fixed, request_pool, pc, now, stamp, form, waited,
                   running, history, shadow_pool, shadow_grants>>

\* RateLimiter.limit / __enter__ (http_client.py:48-49, 70-71), as entered
\* by SentinelBoxClient.make_request (box_client.py:65-67).
Enter(c) ==
    /\ c \in callers
    /\ pc[c] = "idle"
    /\ Len(grants) + Cardinality({d \in callers : pc[d] # "idle"}) < MaxGrants
    /\ pc' = [pc EXCEPT ![c] = "now"]
    /\ form' = [form EXCEPT ![c] = "sync"]
    /\ waited' = [waited EXCEPT ![c] = FALSE]
    /\ UNCHANGED <<fileVars, dirVars, fixed, request_pool, clock, now, stamp, running, history,
                   shadow_pool, shadow_grants>>

\* http_client.py:53  now = time.time()
ReadNow(c) ==
    /\ pc[c] = "now"
    /\ now' = [now EXCEPT ![c] = clock]
    /\ pc' = [pc EXCEPT ![c] = "while"]
    /\ shadow_pool' = IF Shadowed
                      THEN AsyncPrune(shadow_pool, clock, rate_period)
                      ELSE shadow_pool
    /\ UNCHANGED <<fileVars, dirVars, fixed, request_pool, clock, stamp, form, waited, running,
                   history, shadow_grants>>

\* http_client.py:54  while self._request_pool:
WhilePool(c) ==
    /\ pc[c] = "while"
    /\ pc' = [pc EXCEPT ![c] = IF request_pool # <<>> THEN "cmp" ELSE "len"]
    /\ UNCHANGED <<fileVars, dirVars, fixed, request_pool, clock, now, stamp, form, waited,
                   running, history, shadow_pool, shadow_grants>>

\* http_client.py:55-58  if now - self._request_pool[0] > self._rate_period
\* (deque[0] of an empty deque raises IndexError).
CompareHead(c) ==
    /\ pc[c] = "cmp"
    /\ pc' = [pc EXCEPT ![c] =
                IF request_pool = <<>> THEN "failed"
                ELSE IF Expired(now[c], Head(request_pool), rate_period)
                     THEN "pop" ELSE "len"]
    /\ UNCHANGED <<fileVars, dirVars, fixed, request_pool, clock, now, stamp, form, waited,
                   running, history, shadow_pool, shadow_grants>>

\* http_client.py:56  self._request_pool.popleft()
\* (popleft of an empty deque raises IndexError).
PopLeft(c) ==
    /\ pc[c] = "pop"
    /\ IF request_pool = <<>>
       THEN /\ pc' = [pc EXCEPT ![c] = "failed"]
            /\ UNCHANGED request_pool
       ELSE /\ request_pool' = Tail(request_pool)
            /\ pc' = [pc EXCEPT ![c] = "while"]
    /\ UNCHANGED <<fileVars, dirVars, fixed, clock, now, stamp, form, waited, running, history,
                   shadow_pool, shadow_grants>>

\* http_client.py:60-61  if len(self._request_pool) < self._rate_limit: break
CheckLen(c) ==
    /\ pc[c] = "len"
    /\ pc' = [pc EXCEPT ![c] =
                IF HasCapacity(request_pool, rate_limit)
                THEN "stamp" ELSE "sleep"]
    /\ UNCHANGED <<fileVars, dirVars, fixed, request_pool, clock, now, stamp, form, waited,
                   running, history, shadow_pool, shadow_grants>>

\* http_client.py:63  time.sleep(self._retry_interval)
Sleep(c) ==
    /\ pc[c] = "sleep"
    /\ pc' = [pc EXCEPT ![c] = "now"]
    /\ waited' = [waited EXCEPT ![c] = TRUE]
    /\ UNCHANGED <<fileVars, dirVars, fixed, request_pool, clock, now, stamp, form, running,
                   history, shadow_pool, shadow_grants>>

\* http_client.py:65  the argument time.time() of append is evaluated.
ReadStamp(c) ==
    /\ pc[c] = "stamp"
    /\ stamp' = [stamp EXCEPT ![c] = clock]
    /\ pc' = [pc EXCEPT ![c] = "append"]
    /\ UNCHANGED <<fileVars, dirVars, fixed, request_pool, clock, now, form, waited, running,
                   history, shadow_pool, shadow_grants>>

\* What the reference limiter does with a grant stamped t.
ShadowAppend(t, w) ==
    IF Shadowed /\ AsyncHasCapacity(shadow_pool, rate_limit)
    THEN /\ shadow_pool' = Append(shadow_pool, t)
         /\ shadow_grants' = Append(shadow_grants, [at |-> t, waited |-> w])
    ELSE UNCHANGED <<shadow_pool, shadow_grants>>

\* http_client.py:65  self._request_pool.append(<the value read>)
AppendGrant(c) ==
    /\ pc[c] = "append"
    /\ request_pool' = Append(request_pool, stamp[c])
    /\ grants' = Append(grants, [at |-> stamp[c], waited |-> waited[c]])
    /\ forms_granted' = forms_granted \cup {form[c]}
    /\ ShadowAppend(stamp[c], waited[c])
    /\ pc' = [pc EXCEPT ![c] = "granted"]
    /\ UNCHANGED <<fileVars, dirVars, fixed, clock, now, stamp, form, waited, running>>

\* The body of the with / async with block ends; __exit__ / __aexit__ do
\* nothing (http_client.py:73-74, 95-96; box_client.py:67; http_client.py:108-109).
Exit(c) ==
    /\ pc[c] = "granted"
    /\ pc' = [pc EXCEPT ![c] = "idle"]
    /\ now' = [now EXCEPT ![c] = 0]
    /\ stamp' = [stamp EXCEPT ![c] = 0]
    /\ UNCHANGED <<fileVars, dirVars, fixed, request_pool, clock, form, waited, running, history,
                   shadow_pool, shadow_grants>>

\* RateLimiter.async_limit / __aenter__ (http_client.py:67-68, 92-93), as
\* entered by request() (http_client.py:108).  The event loop runs one
\* coroutine at a time.
AsyncEnter(c) ==
    /\ c \in callers
    /\ pc[c] = "idle"
    /\ running = 0
    /\ Len(grants) + Cardinality({d \in callers : pc[d] # "idle"}) < MaxGrants
    /\ pc' = [pc EXCEPT ![c] = "aloop"]
    /\ form' = [form EXCEPT ![c] = "async"]
    /\ waited' = [waited EXCEPT ![c] = FALSE]
    /\ running' = c
    /\ UNCHANGED <<fileVars, dirVars, fixed, request_pool, clock, now, stamp, history,
                   shadow_pool, shadow_grants>>

\* http_client.py:78-88: one pass of the outer loop of _async_limiter up to
\* the break or the await.
AsyncPass(c) ==
    /\ pc[c] = "aloop"
    /\ running = c
    /\ now' = [now EXCEPT ![c] = clock]
    /\ request_pool' = AsyncPrune(request_pool, clock, rate_period)
    /\ shadow_pool' = IF Shadowed
                      THEN AsyncPrune(shadow_pool, clock, rate_period)
                      ELSE shadow_pool
    /\ IF AsyncHasCapacity(request_pool', rate_limit)
       THEN /\ pc' = [pc EXCEPT ![c] = "aappend"]
            /\ UNCHANGED running
       ELSE /\ pc' = [pc EXCEPT ![c] = "asleep"]
            /\ running' = 0
    /\ UNCHANGED <<fileVars, dirVars, fixed, clock, stamp, form, waited, history, shadow_grants>>

\* http_client.py:88  await asyncio.sleep(self._retry_interval) returns.
AsyncWake(c) ==
    /\ pc[c] = "asleep"
    /\ running = 0
    /\ pc' = [pc EXCEPT ![c] = "aloop"]
    /\ waited' = [waited EXCEPT ![c] = TRUE]
    /\ running' = c
    /\ UNCHANGED <<fileVars, dirVars, fixed, request_pool, clock, now, stamp, form, history,
                   shadow_pool, shadow_grants>>

\* http_client.py:90  self._request_pool.append(time.time()); the coroutine
\* then awaits inside the async with block (http_client.py:108-109).
AsyncAppend(c) ==
    /\ pc[c] = "aappend"
    /\ running = c
    /\ stamp' = [stamp EXCEPT ![c] = clock]
    /\ request_pool' = Append(request_pool, clock)
    /\ grants' = Append(grants, [at |-> clock, waited |-> waited[c]])
    /\ forms_granted' = forms_granted \cup {form[c]}
    /\ ShadowAppend(clock, waited[c])
    /\ pc' = [pc EXCEPT ![c] = "granted"]
    /\ running' = 0
    /\ UNCHANGED <<fileVars, dirVars, fixed, clock, now, form, waited>>

\* The steps of the blocking form.
limiter(c) ==
    \/ ReadNow(c)
    \/ WhilePool(c)
    \/ CompareHead(c)
    \/ PopLeft(c)
    \/ CheckLen(c)
    \/ Sleep(c)
    \/ ReadStamp(c)
    \/ AppendGrant(c)

\* The steps of the suspending form.
async_limiter(c) ==
    \/ AsyncPass(c)
    \/ AsyncWake(c)
    \/ AsyncAppend(c)

\* ---------------------------------------------------- path functions
\* os.path.split: the head and the last segment of a path.
Split(path) == <<SubSeq(path, 1, Len(path) - 1), path[Len(path)]>>

\* os.path.join(root, file_name) (directory.py:318).
Join(root, file_name) == Append(root, file_name)

\* os.path.splitext: the name up to its last dot (not a leading one) and
\* the extension from that dot on.
Splitext(name) ==
    LET dots == {i \in 2..Len(name) : name[i] = "."}
    IN  IF dots = {} THEN <<name, <<>>>>
        ELSE LET i == CHOOSE d \in dots : \A e \in dots : e <= d
             IN  <<SubSeq(name, 1, i - 1), SubSeq(name, i, Len(name))>>

\* str.lower, on the characters the model's names are made of.
LowerChar(ch) ==
    CASE ch = "A" -> "a"
      [] ch = "B" -> "b"
      [] OTHER -> ch
Lower(str) == [i \in DOMAIN str |-> LowerChar(str[i])]

\* Python's `sub in str` on strings.
Contains(sub, str) ==
    \E k \in 0..(Len(str) - Len(sub)) : SubSeq(str, k + 1, k + Len(sub)) = sub

\* directory.py:357-358  _event_path_postfix
event_path_postfix(event) == Split(event.src_path)[2]

\* directory.py:126-153  validate_file_path
validate_file_path(file_path) ==
    LET split_file_path == Split(file_path)
        file_name == split_file_path[2]
        file_name_prefix == Splitext(file_name)[1]
        file_extension == Splitext(file_name)[2]
        not_ignored ==
            ~(\/ file_name \in config.ignored_files
              \/ file_extension \in config.ignored_extensions)
        prefix_ok ==
            config.included_file_prefix # {} =>
                \E included \in config.included_file_prefix :
                    Contains(included, Lower(file_name_prefix))
        directory_ok ==
            config.included_directories # {} =>
                \E included \in config.included_directories :
                    \E i \in DOMAIN split_file_path[1] :
                        split_file_path[1][i] = included
    IN  not_ignored /\ prefix_ok /\ directory_ok

\* directory.py:155-164  validate_directory_path: os.path.split yields two
\* items, the head (a path) and the last segment; the head equals a
\* directory name only when it is that one segment.
validate_directory_path(directory_path) ==
    LET directory_path_items == Split(directory_path)
    IN  /\ ~\E d \in config.ignored_directories :
               directory_path_items[1] = <<d>>
        /\ directory_path_items[2] \notin config.ignored_directories

\* Variant: only directory events are validated before they are handled.
validate_directory_events_only(event) ==
    IF event.kind \in DirEventKinds
    THEN validate_directory_path(event.src_path)
    ELSE TRUE

\* directory.py:166-196  validate_event_for_handlers
validate_event_for_handlers(event) ==
    IF event.kind \in DirEventKinds
    THEN validate_directory_path(event.src_path)
    ELSE IF event.kind \in FileEventKinds
         THEN validate_file_path(event.src_path)
         ELSE TRUE

\* Variant: only the files found by the running scan are looked at.
new_files_paths ==
    {new_sentinel_files[i].file_path : i \in DOMAIN new_sentinel_files}

\* directory.py:95-100  sentinel_files_paths
sentinel_files_paths == {sentinel_files[i].file_path : i \in DOMAIN sentinel_files}

\* directory.py:88-93  sentinel_files_names
sentinel_files_names == {sentinel_files[i].file_name : i \in DOMAIN sentinel_files}

\* directory.py:351-354  sentinel_file_from_file_name: the index of the
\* first entry with that name, 0 for None.
sentinel_file_from_file_name(file_name) ==
    LET hits == {i \in DOMAIN sentinel_files :
                    sentinel_files[i].file_name = file_name}
    IN  IF hits = {} THEN 0 ELSE CHOOSE i \in hits : \A j \in hits : i <= j

\* list.remove of the entry at index i (directory.py:239).
RemoveAt(files, i) ==
    SubSeq(files, 1, i - 1) \o SubSeq(files, i + 1, Len(files))

\* Variant: the sentinel file is built whatever the file holds.
ConstructionNeverFails(file_path) == {FALSE}

\* Whether sentinel_file_type(file_name=, file_path=) raises
\* (directory.py:266-271, 326-338).  A type that parses the file when it is
\* built (files/xml_file.py:54-56) raises on content it cannot parse and on
\* a file that is gone; SentinelFile itself (files/sentinel_file.py:100-117)
\* does not open the file, so with it a file that is gone is still built.
ConstructionFails(file_path) ==
    CASE disk[file_path] = "ok" -> {FALSE}
      [] disk[file_path] = "bad" -> {TRUE}
      [] OTHER -> {TRUE, FALSE}

\* SentinelFile.__init__ (files/sentinel_file.py:100-117): the fields of
\* the new file the registry's operations read.
SentinelFile(file_name, file_path) ==
    [file_name |-> file_name, file_path |-> file_path]

\* The files of directory `root` on disk, as os.walk lists them.
Listing(root) ==
    {Split(p)[2] : p \in {q \in FilePaths : Split(q)[1] = root
                                            /\ disk[q] # "absent"}}

\* ------------------------------------------------------ directory Init
\* SentinelDirectory.__init__ (directory.py:43-80) on a tree that may hold
\* files already; the scan of lines 82-83 is the first run of
\* monitor_sentinel_files.
DirectoryInit ==
    /\ config \in Configs
    /\ sentinel_files = <<>>
    /\ disk \in [FilePaths -> {"absent", "ok", "bad"}]
    /\ events = <<>>
    /\ fs_changes = 0
    /\ scan_pc = "idle"
    /\ scan_dirs = <<>>
    /\ scan_root = <<>>
    /\ scan_files = {}
    /\ scan_path = <<>>
    /\ new_sentinel_files = <<>>
    /\ files_at_start = <<>>
    /\ since_start = {"fs", "dispatch", "removal"}
    /\ prev_clean = FALSE

\* No SentinelDirectory is built.
NoDirectory ==
    /\ config = NoRules
    /\ sentinel_files = <<>>
    /\ disk = [p \in FilePaths |-> "absent"]
    /\ events = <<>>
    /\ fs_changes = 0
    /\ scan_pc = "idle"
    /\ scan_dirs = <<>>
    /\ scan_root = <<>>
    /\ scan_files = {}
    /\ scan_path = <<>>
    /\ new_sentinel_files = <<>>
    /\ files_at_start = <<>>
    /\ since_start = {}
    /\ prev_clean = FALSE

\* No RateLimiter is built.
NoLimiter ==
    /\ rate_limit = 0
    /\ rate_period = 0
    /\ request_pool = <<>>
    /\ clock = 0
    /\ horizon = 0
    /\ callers = {}
    /\ pc = [c \in Callers |-> "idle"]
    /\ now = [c \in Callers |-> 0]
    /\ stamp = [c \in Callers |-> 0]
    /\ form = [c \in Callers |-> "sync"]
    /\ waited = [c \in Callers |-> FALSE]
    /\ running = 0
    /\ grants = <<>>
    /\ forms_granted = {}
    /\ shadow_pool = <<>>
    /\ shadow_grants = <<>>

\* --------------------------------------------------- the file system
scanVars == <<scan_pc, scan_dirs, scan_root, scan_files, scan_path,
              new_sentinel_files, prev_clean>>

\* The observer queues the event, or misses it.
Observe(event, seen) ==
    /\ fs_changes < MaxFsChanges
    /\ fs_changes' = fs_changes + 1
    /\ events' = IF seen THEN Append(events, event) ELSE events

\* A producer creates a file.
FsCreate(p, content, seen) ==
    /\ disk[p] = "absent"
    /\ disk' = [disk EXCEPT ![p] = content]
    /\ Observe([kind |-> "FileCreated", src_path |-> p], seen)
    /\ since_start' = since_start \cup {"fs"}
    /\ UNCHANGED <<fileVars, limVars, config, sentinel_files, scanVars, files_at_start>>

\* A file's content is rewritten.
FsModify(p, content, seen) ==
    /\ disk[p] # "absent"
    /\ disk[p] # content
    /\ disk' = [disk EXCEPT ![p] = content]
    /\ Observe([kind |-> "FileModified", src_path |-> p], seen)
    /\ since_start' = since_start \cup {"fs"}
    /\ UNCHANGED <<fileVars, limVars, config, sentinel_files, scanVars, files_at_start>>

\* A file is removed.
FsDelete(p, seen) ==
    /\ disk[p] # "absent"
    /\ disk' = [disk EXCEPT ![p] = "absent"]
    /\ Observe([kind |-> "FileDeleted", src_path |-> p], seen)
    /\ since_start' = since_start \cup {"fs"}
    /\ UNCHANGED <<fileVars, limVars, config, sentinel_files, scanVars, files_at_start>>

\* A file is moved to another directory, where its name is free.
FsMove(p, q, seen) ==
    /\ Split(p)[2] = Split(q)[2]
    /\ disk[p] # "absent"
    /\ disk[q] = "absent"
    /\ disk' = [disk EXCEPT ![p] = "absent", ![q] = disk[p]]
    /\ Observe([kind |-> "FileMoved", src_path |-> p], seen)
    /\ since_start' = since_start \cup {"fs"}
    /\ UNCHANGED <<fileVars, limVars, config, sentinel_files, scanVars, files_at_start>>

\* A directory below file_system_path is created, deleted, modified or
\* moved; the model keeps no state of directories, only the event.
FsDirectory(kind, d) ==
    /\ d # RootPath
    /\ Observe([kind |-> kind, src_path |-> d], TRUE)
    /\ since_start' = since_start \cup {"fs"}
    /\ UNCHANGED <<fileVars, limVars, config, sentinel_files, disk, scanVars,
                   files_at_start>>

\* ---------------------------------------------------------- dispatch
\* directory.py:258-271  _handle_file_created_event
handle_file_created_event(event) ==
    LET file_name == event_path_postfix(event)
    IN  \E raised \in ConstructionFails(event.src_path) :
            IF raised
            THEN UNCHANGED sentinel_files
            ELSE sentinel_files' =
                     Append(sentinel_files,
                            SentinelFile(file_name, event.src_path))

\* directory.py:230-247, 345-349  _handle_file_deleted_event
handle_file_deleted_event(event) ==
    LET i == sentinel_file_from_file_name(event_path_postfix(event))
    IN  IF i # 0
        THEN sentinel_files' = RemoveAt(sentinel_files, i)
        ELSE UNCHANGED sentinel_files

\* Variant: the handlers of the other events forget the registry.
handle_forgetting(event) ==
    CASE event.kind = "FileCreated" -> handle_file_created_event(event)
      [] event.kind = "FileDeleted" -> handle_file_deleted_event(event)
      [] OTHER -> sentinel_files' = <<>>

\* directory.py:112-124  file_system_event_type_handler_map; the handlers
\* of lines 249-256 and 273-311 only log.
handle(event) ==
    CASE event.kind = "FileCreated" -> handle_file_created_event(event)
      [] event.kind = "FileDeleted" -> handle_file_deleted_event(event)
      [] OTHER -> UNCHANGED sentinel_files

\* directory.py:198-212  dispatch, of the oldest waiting event.
dispatch ==
    /\ events # <<>>
    /\ events' = Tail(events)
    /\ IF validate_event_for_handlers(Head(events))
       THEN handle(Head(events))
       ELSE UNCHANGED sentinel_files
    /\ files_at_start' = <<>>
    /\ since_start' =
           since_start \cup {"dispatch"}
               \cup (IF Len(sentinel_files') < Len(sentinel_files)
                     THEN {"removal"} ELSE {})
               \cup (IF validate_event_for_handlers(Head(events))
                     THEN {} ELSE {"dropped"})
    /\ UNCHANGED <<fileVars, limVars, config, disk, fs_changes, scanVars>>

\* -------------------------------------------- monitor_sentinel_files
\* directory.py:313-316  the call starts; os.walk is at file_system_path.
ScanStart ==
    /\ scan_pc = "idle"
    /\ scan_pc' = "walk"
    /\ scan_dirs' = WalkOrder
    /\ new_sentinel_files' = <<>>
    /\ files_at_start' = sentinel_files
    /\ prev_clean' = (since_start = {})
    /\ since_start' = {}
    /\ UNCHANGED <<fileVars, limVars, config, sentinel_files, disk, events, fs_changes, scan_root,
                   scan_files, scan_path>>

\* directory.py:316  os.walk yields the next directory with its files, or
\* is exhausted.
ScanWalk ==
    /\ scan_pc = "walk"
    /\ IF scan_dirs = <<>>
       THEN /\ scan_pc' = "done"
            /\ scan_root' = <<>>
            /\ UNCHANGED <<scan_dirs, scan_files>>
       ELSE /\ scan_root' = Head(scan_dirs)
            /\ scan_dirs' = Tail(scan_dirs)
            /\ scan_files' = Listing(Head(scan_dirs))
            /\ scan_pc' = "files"
    /\ UNCHANGED <<fileVars, limVars, config, sentinel_files, disk, events, fs_changes, scan_path,
                   new_sentinel_files, files_at_start, since_start,
                   prev_clean>>

\* directory.py:317-322  the next file of the directory: its path is
\* built and checked against the rules and the registry's paths.
ScanCheck ==
    /\ scan_pc = "files"
    /\ IF scan_files = {}
       THEN /\ scan_pc' = "walk"
            /\ UNCHANGED <<scan_files, scan_path>>
       ELSE \E file_name \in scan_files :
                LET file_path == Join(scan_root, file_name)
                    new == /\ validate_file_path(file_path)
                           /\ file_path \notin sentinel_files_paths
                IN  /\ scan_files' = scan_files \ {file_name}
                    /\ scan_path' = IF new THEN file_path ELSE <<>>
                    /\ scan_pc' = IF new THEN "construct" ELSE "files"
    /\ UNCHANGED <<fileVars, limVars, config, sentinel_files, disk, events, fs_changes, scan_dirs,
                   scan_root, new_sentinel_files, files_at_start,
                   since_start, prev_clean>>

\* directory.py:326-338  the sentinel file is built and appended to the
\* registry and to the list of new files, or the failure is logged.
ScanConstruct ==
    /\ scan_pc = "construct"
    /\ \E raised \in ConstructionFails(scan_path) :
           IF raised
           THEN UNCHANGED <<sentinel_files, new_sentinel_files>>
           ELSE LET sentinel_file ==
                        SentinelFile(Split(scan_path)[2], scan_path)
                IN  /\ sentinel_files' = Append(sentinel_files, sentinel_file)
                    /\ new_sentinel_files' =
                           Append(new_sentinel_files, sentinel_file)
    /\ scan_pc' = "files"
    /\ scan_path' = <<>>
    /\ UNCHANGED <<fileVars, limVars, config, disk, events, fs_changes, scan_dirs,
                   scan_root, scan_files, files_at_start, since_start,
                   prev_clean>>

\* directory.py:343  return new_sentinel_files
ScanReturn ==
    /\ scan_pc = "done"
    /\ scan_pc' = "idle"
    /\ new_sentinel_files' = <<>>
    /\ UNCHANGED <<fileVars, limVars, config, sentinel_files, disk, events, fs_changes,
                   scan_dirs, scan_root, scan_files, scan_path,
                   files_at_start, since_start, prev_clean>>

monitor_sentinel_files ==
    \/ ScanStart
    \/ ScanWalk
    \/ ScanCheck
    \/ ScanConstruct
    \/ ScanReturn

\* ------------------------------------------------------- SentinelFile
\* Last clock value in the life of the file object.
MaxFileTime == 1
\* Largest size a file on disk takes.
MaxSize == 1
\* Largest threshold min_elapsed_for_delete and
\* min_elapsed_for_box_upload_fail are given at construction.
MaxMinElapsed == 1
\* Consumers that poll the directory for files to upload.
NumConsumers == 2
\* Calls made on the object.
MaxCalls == 2

\* Whole days, and seconds into a day, that the age of an object reaches.
MaxDays == 1
MaxSecondOfDay == 3
\* files/sentinel_file.py:669  the seconds of a day, above which
\* timedelta.seconds does not go
SecondsPerDay == 86400

Consumers == 1..NumConsumers
\* The thresholds an object is built with, and the sizes its file takes.
Thresholds == {0, MaxMinElapsed}
Sizes == {0, MaxSize}

\* files/sentinel_file.py:83  min_elapsed_for_box_upload_attempt: int = 1
DefaultMinElapsedForBoxUploadAttempt == 1
\* files/sentinel_file.py:86  min_elapsed_for_input_complete: int = 1
DefaultMinElapsedForInputComplete == 1

\* Python's None is the empty sequence, a value v that is set is <<v>>;
\* file_path = None is the empty path.
None == <<>>
Some(v) == <<v>>
NoPath == <<>>

\* The file the object is built for, and its directory.
FileHome == <<SegR, NameC>>
Dirname(path) == Split(path)[1]
Basename(path) == Split(path)[2]

\* str(int(t)) for the clock values of the model, and the name
\* f"{int(datetime.datetime.utcnow().timestamp())}-{self.file_name}"
\* (files/sentinel_file.py:453).
Digit(t) == <<"0", "1", "2", "3", "4", "5", "6", "7", "8", "9">>[t + 1]
Stamped(t, file_name) == <<Digit(t), "-">> \o file_name

\* The disk: fs maps the path of each file that exists to its size; the
\* directories of the tree exist throughout.
IsFile(path) == path \in DOMAIN fs
IsDir(path) == path \in DirPaths
Exists(path) == IsFile(path) \/ IsDir(path)
\* What stat reports as the size of a directory.
DirectorySize == MaxSize + 1

\* fs after os.rename(src, dst) of a file.
Renamed(disk0, src, dst) ==
    [p \in (DOMAIN disk0 \ {src}) \cup {dst} |->
        IF p = dst THEN disk0[src] ELSE disk0[p]]
\* fs after os.remove(path) of a file.
Removed(disk0, path) == [p \in DOMAIN disk0 \ {path} |-> disk0[p]]

\* os.stat (files/sentinel_file.py:245): the stats, or None.
Stat(path) ==
    IF IsFile(path) THEN Some([st_size |-> fs[path]])
    ELSE IF IsDir(path) THEN Some([st_size |-> DirectorySize])
    ELSE None

\* Python truth of the objects conditions test: a coroutine object (an
\* async function called without await) is true, a dict is true when it
\* has keys.
Coroutine(name) == [coroutine |-> name]
Dict(keys) == [dict |-> keys]
Truthy(v) == IF "coroutine" \in DOMAIN v THEN TRUE ELSE v.dict # {}
\* Truth of a number, and of an optional number.
TruthyNumber(n) == n # 0
TruthyOptional(o) == o # None /\ TruthyNumber(o[1])

\* What the call that has just returned returned: the operation, its
\* (boolean) value, whether it raised, and for a move its arguments.
NoCall ==
    [op |-> "none", value |-> FALSE, raised |-> FALSE, dest |-> NoPath,
     rename_dup |-> FALSE]
Returned(op, value) == [NoCall EXCEPT !.op = op, !.value = value]
Raised(op) == [NoCall EXCEPT !.op = op, !.raised = TRUE]

\* SentinelFile.__init__ (files/sentinel_file.py:64-136) at time t, and
\* _SentinelABC.__init__ (sentinel_abc.py:21-23).  deleted_on, False until
\* it is stamped (line 77), is None here.
NewSentinelFile(file_path, t, input_complete, min_delete, min_fail) ==
    [id |-> 1,
     file_name |-> Basename(file_path),
     file_path |-> file_path,
     file_directory_path |-> Dirname(file_path),
     current_directory |-> None,
     deleted |-> FALSE,
     deleted_on |-> None,
     directory_entry_on |-> Some(t),
     initial_monitor_on |-> Some(t),
     input_complete |-> input_complete,
     ready_for_delete |-> FALSE,
     ready_for_upload |-> FALSE,
     st_size |-> None,
     st_size_diff_from_cache_on |-> None,
     attempted_upload_to_box_on |-> None,
     uploaded_to_box |-> FALSE,
     min_elapsed_for_box_upload_attempt |-> DefaultMinElapsedForBoxUploadAttempt,
     min_elapsed_for_box_upload_fail |-> min_fail,
     min_elapsed_for_delete |-> min_delete,
     min_elapsed_for_input_complete |-> DefaultMinElapsedForInputComplete]

\* The registry of the directory that holds the object: its one entry shows
\* the object's name and path as they are now.
Tracking(f) == <<SentinelFile(f.file_name, f.file_path)>>
Track(f) ==
    sentinel_files' = IF sentinel_files = <<>> THEN <<>> ELSE Tracking(f)

\* A SentinelFile held by a SentinelDirectory, built with one value for
\* both of its thresholds and with or without input_complete, on a disk
\* where the file and a file of its name in the sub-directory may or may
\* not exist.
FileInit ==
    /\ \E input_complete \in BOOLEAN, min_elapsed \in Thresholds :
           file = NewSentinelFile(FileHome, 0, input_complete, min_elapsed,
                                  min_elapsed)
    /\ \E here \in SUBSET {FileHome}, there \in SUBSET {Join(SubPath, NameC)} :
           fs \in [here \cup there -> {0}]
    /\ ret = NoCall
    /\ uploading = [c \in Consumers |-> "idle"]
    /\ stat_succeeded = FALSE
    /\ delete_succeeded = FALSE
    /\ renames = 0
    /\ calls = 0

\* No SentinelFile is followed.
NoFile ==
    /\ file = None
    /\ fs = <<>>
    /\ ret = NoCall
    /\ uploading = [c \in Consumers |-> "idle"]
    /\ stat_succeeded = FALSE
    /\ delete_succeeded = FALSE
    /\ renames = 0
    /\ calls = 0

\* The clock alone, with no RateLimiter.
ClockInit(h) ==
    /\ rate_limit = 0
    /\ rate_period = 0
    /\ request_pool = <<>>
    /\ clock = 0
    /\ horizon = h
    /\ callers = {}
    /\ pc = [c \in Callers |-> "idle"]
    /\ now = [c \in Callers |-> 0]
    /\ stamp = [c \in Callers |-> 0]
    /\ form = [c \in Callers |-> "sync"]
    /\ waited = [c \in Callers |-> FALSE]
    /\ running = 0
    /\ grants = <<>>
    /\ forms_granted = {}
    /\ shadow_pool = <<>>
    /\ shadow_grants = <<>>

\* The SentinelDirectory that holds the object.
HoldingDirectory ==
    /\ config = NoRules
    /\ sentinel_files = Tracking(file)
    /\ disk = [p \in FilePaths |-> "absent"]
    /\ events = <<>>
    /\ fs_changes = 0
    /\ scan_pc = "idle"
    /\ scan_dirs = <<>>
    /\ scan_root = <<>>
    /\ scan_files = {}
    /\ scan_path = <<>>
    /\ new_sentinel_files = <<>>
    /\ files_at_start = <<>>
    /\ since_start = {}
    /\ prev_clean = FALSE

\* What the file operations leave alone of the directory.
dirRest == <<config, disk, events, fs_changes, scanVars, files_at_start,
             since_start>>
histVars == <<stat_succeeded, delete_succeeded, renames>>

\* One more call is made on the object.
Call ==
    /\ calls < MaxCalls
    /\ calls' = calls + 1

\* files/sentinel_file.py:240-250  current_stats
current_stats(f) ==
    IF f.file_path # NoPath /\ Exists(f.file_path)
    THEN Stat(f.file_path)
    ELSE None

\* files/sentinel_file.py:373-381 and 333-371: seconds since a timestamp
\* that is set.
ElapsedSince(on) == clock - on[1]

\* files/sentinel_file.py:179-190  check_input_complete: whether it raised
\* (None < int), its value, and the object after it.
check_input_complete(f) ==
    IF f.input_complete
    THEN [raised |-> FALSE, value |-> TRUE, file |-> f]
    ELSE IF f.st_size_diff_from_cache_on = None
    THEN [raised |-> TRUE, value |-> FALSE, file |-> f]
    ELSE IF ElapsedSince(f.st_size_diff_from_cache_on)
                < f.min_elapsed_for_input_complete
    THEN [raised |-> FALSE, value |-> TRUE,
          file |-> [f EXCEPT !.input_complete = TRUE]]
    ELSE [raised |-> FALSE, value |-> FALSE, file |-> f]

\* files/sentinel_file.py:192-201  check_min_elapsed_for_box_upload
check_min_elapsed_for_box_upload(f) ==
    \/ f.attempted_upload_to_box_on = None
    \/ ElapsedSince(f.attempted_upload_to_box_on)
           > f.min_elapsed_for_box_upload_attempt

\* Variant: a size that changed takes input_complete back.
current_st_size_diff_from_cache_resetting(f) ==
    LET stats == current_stats(f)
        changed == stats # None /\ f.st_size # Some(stats[1].st_size)
    IN  [diff |-> Dict(IF changed THEN {"size"} ELSE {}),
         file |-> [f EXCEPT
                     !.st_size = IF changed THEN Some(stats[1].st_size) ELSE @,
                     !.input_complete = IF changed THEN FALSE ELSE @,
                     !.st_size_diff_from_cache_on = Some(clock)]]

\* files/sentinel_file.py:315-316, 257-304  current_st_size_diff_from_cache
\* when it is awaited: the diff and the object after it.
current_st_size_diff_from_cache(f) ==
    LET stats == current_stats(f)
        changed == stats # None /\ f.st_size # Some(stats[1].st_size)
    IN  [diff |-> Dict(IF changed THEN {"size"} ELSE {}),
         file |-> [f EXCEPT
                     !.st_size = IF changed THEN Some(stats[1].st_size) ELSE @,
                     !.st_size_diff_from_cache_on = Some(clock)]]

\* Variant: the threshold itself already counts as elapsed.
ElapsedReaches(elapsed, min_elapsed) == elapsed >= min_elapsed

\* files/sentinel_file.py:209  elapsed > self.min_elapsed_for_delete
ElapsedExceeds(elapsed, min_elapsed) == elapsed > min_elapsed

\* os.rename, shutil.move and os.remove raise when the source is None or no
\* file (files/sentinel_file.py:321, 464, 508).
SourceMissing(path) == path = NoPath \/ ~IsFile(path)

\* Variant: the new path and name are recorded whether or not os.rename
\* went through.
rename_self_unchecked(f, disk0, new_file_name) ==
    LET new_file_path == Join(f.file_directory_path, new_file_name)
        renamed_file == [f EXCEPT !.file_path = new_file_path,
                                  !.file_name = new_file_name]
    IN  IF SourceMissing(f.file_path)
        THEN [renamed |-> FALSE, file |-> renamed_file, fs |-> disk0]
        ELSE [renamed |-> TRUE, file |-> renamed_file,
              fs |-> Renamed(disk0, f.file_path, new_file_path)]

\* files/sentinel_file.py:501-517  rename_self: whether it renamed, the
\* object and the disk after it.  file_directory_path is absolute, so
\* os.path.join drops os.path.dirname(__file__).
rename_self(f, disk0, new_file_name) ==
    LET new_file_path == Join(f.file_directory_path, new_file_name)
    IN  IF SourceMissing(f.file_path)
        THEN [renamed |-> FALSE, file |-> f, fs |-> disk0]
        ELSE [renamed |-> TRUE,
              file |-> [f EXCEPT !.file_path = new_file_path,
                                 !.file_name = new_file_name],
              fs |-> Renamed(disk0, f.file_path, new_file_path)]

\* files/sentinel_file.py:464-469  shutil.move into the directory and the
\* assignments after it: whether it moved, the object and the disk after.
move_file(f, disk0, new_directory_path) ==
    IF f.file_path = NoPath \/ f.file_path \notin DOMAIN disk0
    THEN [moved |-> FALSE, file |-> f, fs |-> disk0]
    ELSE LET real_dst == Join(new_directory_path, Basename(f.file_path))
         IN  IF real_dst \in DOMAIN disk0
             THEN [moved |-> FALSE, file |-> f, fs |-> disk0]
             ELSE [moved |-> TRUE,
                   file |-> [f EXCEPT
                       !.file_path = new_directory_path,
                       !.directory_entry_on = Some(clock),
                       !.current_directory =
                           Some(Basename(new_directory_path))],
                   fs |-> Renamed(disk0, f.file_path, real_dst)]

\* ---------------------------------------------------- file operations
\* Time passes after the last call.
FileTick ==
    /\ clock < horizon
    /\ clock' = clock + 1
    /\ ret' = NoCall
    /\ UNCHANGED <<fixed, request_pool, pc, now, stamp, form, waited, running,
                   history, shadow_pool, shadow_grants, dirVars, file, fs,
                   uploading, histVars, calls>>

\* A producer writes to the file: its size changes.
Write(size) ==
    /\ file.file_path # NoPath
    /\ IsFile(file.file_path)
    /\ fs[file.file_path] # size
    /\ fs_changes < MaxFsChanges
    /\ fs_changes' = fs_changes + 1
    /\ fs' = [fs EXCEPT ![file.file_path] = size]
    /\ ret' = NoCall
    /\ UNCHANGED <<limVars, config, sentinel_files, disk, events, scanVars,
                   files_at_start, since_start, file, uploading, histVars,
                   calls>>

\* files/sentinel_file.py:586-599  update_stats
update_stats ==
    LET stats == current_stats(file)
    IN  /\ file' = IF stats # None
                   THEN [file EXCEPT !.st_size = Some(stats[1].st_size)]
                   ELSE file
        /\ stat_succeeded' = (stat_succeeded \/ stats # None)
        /\ ret' = Returned("update_stats", FALSE)
        /\ Track(file')
        /\ Call
        /\ UNCHANGED <<limVars, dirRest, fs, uploading, delete_succeeded,
                       renames>>

\* files/sentinel_file.py:315-316  await current_st_size_diff_from_cache()
StSizeDiff ==
    LET r == current_st_size_diff_from_cache(file)
    IN  /\ file' = r.file
        /\ stat_succeeded' = (stat_succeeded \/ current_stats(file) # None)
        /\ ret' = Returned("current_st_size_diff_from_cache", Truthy(r.diff))
        /\ Track(file')
        /\ Call
        /\ UNCHANGED <<limVars, dirRest, fs, uploading, delete_succeeded,
                       renames>>

\* files/sentinel_file.py:179-190  check_input_complete()
CheckInputComplete ==
    LET r == check_input_complete(file)
    IN  /\ file' = r.file
        /\ ret' = IF r.raised THEN Raised("check_input_complete")
                  ELSE Returned("check_input_complete", r.value)
        /\ Track(file')
        /\ Call
        /\ UNCHANGED <<limVars, dirRest, fs, uploading, histVars>>

\* Variant: the size diff is awaited, and the condition tests the diff.
is_ready_for_box_upload_awaited ==
    LET stats == current_stats(file)
        d == current_st_size_diff_from_cache(file)
        reached == ~file.deleted /\ ~Truthy(d.diff)
        r == check_input_complete(d.file)
        ready_for_upload ==
            reached /\ r.value /\ check_min_elapsed_for_box_upload(r.file)
    IN  /\ file' = IF file.deleted THEN file
                   ELSE IF ~reached THEN d.file
                   ELSE [r.file EXCEPT !.ready_for_upload =
                                           IF ready_for_upload THEN TRUE ELSE @]
        /\ ret' = IF reached /\ r.raised
                  THEN Raised("is_ready_for_box_upload")
                  ELSE Returned("is_ready_for_box_upload", ready_for_upload)
        /\ stat_succeeded' = (stat_succeeded \/ stats # None)
        /\ Track(file')
        /\ Call
        /\ UNCHANGED <<limVars, dirRest, fs, uploading, delete_succeeded,
                       renames>>

\* files/sentinel_file.py:430-444  await is_ready_for_box_upload().  Line
\* 436 calls the async current_st_size_diff_from_cache without await: the
\* condition tests the coroutine object and the call's body never runs.
is_ready_for_box_upload ==
    LET stats == current_stats(file)
        size_diff == Coroutine("current_st_size_diff_from_cache")
        reached == ~file.deleted /\ ~Truthy(size_diff)
        r == check_input_complete(file)
        ready_for_upload ==
            reached /\ r.value /\ check_min_elapsed_for_box_upload(r.file)
    IN  /\ file' = IF ~reached THEN file
                   ELSE [r.file EXCEPT !.ready_for_upload =
                                           IF ready_for_upload THEN TRUE ELSE @]
        /\ ret' = IF reached /\ r.raised
                  THEN Raised("is_ready_for_box_upload")
                  ELSE Returned("is_ready_for_box_upload", ready_for_upload)
        /\ stat_succeeded' = (stat_succeeded \/ stats # None)
        /\ Track(file')
        /\ Call
        /\ UNCHANGED <<limVars, dirRest, fs, uploading, delete_succeeded,
                       renames>>

\* directory.py:371-380  uploadable_sentinel_files: whether the list holds
\* the object.  Line 375 calls the async is_ready_for_box_upload without
\* await and tests the coroutine object.
Uploadable ==
    \E i \in DOMAIN sentinel_files :
        Truthy(Coroutine("is_ready_for_box_upload"))

uploadable_sentinel_files ==
    /\ ret' = Returned("uploadable_sentinel_files", Uploadable)
    /\ Call
    /\ UNCHANGED <<limVars, dirVars, file, fs, uploading, histVars>>

\* files/sentinel_file.py:614-663  the upload itself, which the Box client
\* completes or fails; it fails when file_path names no file.
Outcomes(f) ==
    IF f.file_path # NoPath /\ IsFile(f.file_path) THEN BOOLEAN ELSE {FALSE}
Attempted(f, uploaded) ==
    IF uploaded THEN [f EXCEPT !.uploaded_to_box = TRUE] ELSE f

\* files/sentinel_file.py:609-663  upload_to_box stamps the attempt.  With
\* no size cached and a file to stat, await self.update_stats() suspends
\* it in the stat (sentinel_file.py:245); otherwise it runs to its end,
\* where self.st_size < 50000000 raises for a size of None.
UploadStart(c) ==
    /\ uploading[c] = "idle"
    /\ LET stamped == [file EXCEPT !.attempted_upload_to_box_on = Some(clock)]
           suspends == /\ ~TruthyOptional(file.st_size)
                       /\ file.file_path # NoPath
                       /\ Exists(file.file_path)
       IN  IF suspends
           THEN /\ file' = stamped
                /\ uploading' = [uploading EXCEPT ![c] = "update_stats"]
                /\ ret' = NoCall
           ELSE IF file.st_size = None
           THEN /\ file' = stamped
                /\ ret' = Returned("upload_to_box", FALSE)
                /\ UNCHANGED uploading
           ELSE \E uploaded \in Outcomes(stamped) :
                    /\ file' = Attempted(stamped, uploaded)
                    /\ ret' = Returned("upload_to_box", uploaded)
                    /\ UNCHANGED uploading
    /\ Track(file')
    /\ Call
    /\ UNCHANGED <<limVars, dirRest, fs, histVars>>

\* A consumer polls the directory for uploadable files and starts the
\* upload of one the directory lists.
ConsumerStarts(c) ==
    /\ Uploadable
    /\ UploadStart(c)

\* files/sentinel_file.py:612-663  update_stats returns to upload_to_box;
\* with no size read, self.st_size < 50000000 raises and the attempt ends.
UploadResume(c) ==
    /\ uploading[c] = "update_stats"
    /\ LET stats == current_stats(file)
           statted == IF stats # None
                      THEN [file EXCEPT !.st_size = Some(stats[1].st_size)]
                      ELSE file
       IN  /\ stat_succeeded' = (stat_succeeded \/ stats # None)
           /\ IF statted.st_size = None
              THEN /\ file' = statted
                   /\ ret' = Returned("upload_to_box", FALSE)
              ELSE \E uploaded \in Outcomes(statted) :
                       /\ file' = Attempted(statted, uploaded)
                       /\ ret' = Returned("upload_to_box", uploaded)
    /\ uploading' = [uploading EXCEPT ![c] = "idle"]
    /\ Track(file')
    /\ UNCHANGED calls
    /\ UNCHANGED <<limVars, dirRest, fs, delete_succeeded, renames>>

\* files/sentinel_file.py:203-216  check_ready_for_delete
check_ready_for_delete ==
    LET elapsed_since_directory_entry_on ==
            ElapsedSince(file.directory_entry_on)
        ready_for_delete ==
            /\ ~file.deleted
            /\ TruthyNumber(elapsed_since_directory_entry_on)
            /\ ElapsedExceeds(elapsed_since_directory_entry_on,
                              file.min_elapsed_for_delete)
    IN  /\ file' = [file EXCEPT !.ready_for_delete = ready_for_delete]
        /\ ret' = Returned("check_ready_for_delete", ready_for_delete)
        /\ Track(file')
        /\ Call
        /\ UNCHANGED <<limVars, dirRest, fs, uploading, histVars>>

\* files/sentinel_file.py:667-669  (utcnow() - initial_monitor_on).seconds:
\* the seconds field of the timedelta, which leaves the days out.
Seconds(elapsed) == elapsed % SecondsPerDay

\* files/sentinel_file.py:665-672  upload_to_box_failed
upload_to_box_failed ==
    /\ ret' = Returned("upload_to_box_failed",
                       /\ Seconds(ElapsedSince(file.initial_monitor_on))
                              > file.min_elapsed_for_box_upload_fail
                       /\ ~file.deleted)
    /\ Call
    /\ UNCHANGED <<limVars, dirVars, file, fs, uploading, histVars>>

\* files/sentinel_file.py:318-331  delete
delete ==
    /\ IF SourceMissing(file.file_path)
       THEN /\ ret' = Returned("delete", FALSE)
            /\ UNCHANGED <<file, fs, delete_succeeded>>
       ELSE /\ fs' = Removed(fs, file.file_path)
            /\ file' = [file EXCEPT !.deleted = TRUE,
                                    !.deleted_on = Some(clock),
                                    !.file_path = NoPath,
                                    !.current_directory = None]
            /\ delete_succeeded' = TRUE
            /\ ret' = Returned("delete", TRUE)
    /\ Track(file')
    /\ Call
    /\ UNCHANGED <<limVars, dirRest, uploading, stat_succeeded, renames>>

\* directory.py:360-369  remove_file(sentinel_file)
remove_file ==
    /\ IF sentinel_files # <<>>
       THEN /\ sentinel_files' = RemoveAt(sentinel_files, 1)
            /\ ret' = Returned("remove_file", TRUE)
       ELSE /\ UNCHANGED sentinel_files
            /\ ret' = Returned("remove_file", FALSE)
    /\ Call
    /\ UNCHANGED <<limVars, dirRest, file, fs, uploading, histVars>>

\* files/sentinel_file.py:501-517  rename_self(new_file_name), called on an
\* object whose path names no directory.
RenameSelf(new_file_name) ==
    /\ ~IsDir(file.file_path)
    /\ new_file_name # file.file_name
    /\ LET r == rename_self(file, fs, new_file_name)
       IN  /\ file' = r.file
           /\ fs' = r.fs
           /\ renames' = IF r.renamed THEN renames + 1 ELSE renames
           /\ ret' = Returned("rename_self", r.renamed)
    /\ Track(file')
    /\ Call
    /\ UNCHANGED <<limVars, dirRest, uploading, stat_succeeded,
                   delete_succeeded>>

\* files/sentinel_file.py:446-475  move_directories(new_directory_path,
\* rename_dup), called on an object whose path names no directory.
move_directories(new_directory_path, rename_dup) ==
    /\ ~IsDir(file.file_path)
    /\ LET dup == Exists(Join(new_directory_path, file.file_name))
           r == rename_self(file, fs, Stamped(clock, file.file_name))
           from == IF dup THEN r ELSE [renamed |-> FALSE, file |-> file,
                                       fs |-> fs]
           m == move_file(from.file, from.fs, new_directory_path)
           raised == dup /\ (~rename_dup \/ ~r.renamed)
       IN  /\ file' = IF raised THEN file ELSE m.file
           /\ fs' = IF raised THEN fs ELSE m.fs
           /\ renames' = IF dup /\ rename_dup /\ r.renamed
                         THEN renames + 1 ELSE renames
           /\ ret' = [Returned("move_directories", ~raised /\ m.moved)
                         EXCEPT !.dest = new_directory_path,
                                !.rename_dup = rename_dup]
    /\ Track(file')
    /\ Call
    /\ UNCHANGED <<limVars, dirRest, uploading, stat_succeeded,
                   delete_succeeded>>

\* A SentinelFile held by a directory, the operations callers make on it,
\* and the consumers that upload it.
FileStart == ClockInit(MaxFileTime) /\ FileInit /\ HoldingDirectory

FileNext ==
    \/ FileTick
    \/ \E size \in Sizes : Write(size)
    \/ update_stats
    \/ StSizeDiff
    \/ CheckInputComplete
    \/ is_ready_for_box_upload
    \/ uploadable_sentinel_files
    \/ \E c \in Consumers : ConsumerStarts(c)
    \/ \E c \in Consumers : UploadResume(c)
    \/ check_ready_for_delete
    \/ upload_to_box_failed
    \/ delete
    \/ remove_file
    \/ RenameSelf(NameT)
    \/ \E d \in DirPaths, rename_dup \in BOOLEAN : move_directories(d, rename_dup)

SpecFile == FileStart /\ [][FileNext]_vars

\* ------------------------------------------- the age of a SentinelFile
\* A SentinelFile built at time 0 with a threshold
\* min_elapsed_for_box_upload_fail, deleted (files/sentinel_file.py:76) or
\* not.
AgeInit ==
    /\ \E deleted \in BOOLEAN, min_fail \in Thresholds :
           file = [NewSentinelFile(FileHome, 0, FALSE, 0, min_fail)
                       EXCEPT !.deleted = deleted]
    /\ fs = [p \in {FileHome} |-> 0]
    /\ ret = NoCall
    /\ uploading = [c \in Consumers |-> "idle"]
    /\ stat_succeeded = FALSE
    /\ delete_succeeded = FALSE
    /\ renames = 0
    /\ calls = 0

\* The time at which the day of age that holds time t is over.
DayOver(t) == ((t \div SecondsPerDay) + 1) * SecondsPerDay

\* Time passes, up to time t; what the last call returned stays at hand.
Elapse(t) ==
    /\ t <= horizon
    /\ t % SecondsPerDay <= MaxSecondOfDay
    /\ clock' = t
    /\ UNCHANGED <<fixed, request_pool, pc, now, stamp, form, waited, running,
                   history, shadow_pool, shadow_grants, dirVars, fileVars>>

AgeStart ==
    /\ ClockInit(MaxDays * SecondsPerDay + MaxSecondOfDay)
    /\ AgeInit
    /\ HoldingDirectory

AgeNext ==
    \/ Elapse(clock + 1)
    \/ Elapse(DayOver(clock))
    \/ upload_to_box_failed

SpecAge == AgeStart /\ [][AgeNext]_vars

\* --------------------------------------- a file whose input is awaited
\* A SentinelFile that is not input_complete, built with or without the
\* time of its last size check (files/sentinel_file.py:82, 94, 134), for a
\* file that exists.
AwaitingInit ==
    /\ \E st_size_diff_from_cache_on \in {None, Some(0)} :
           file = [NewSentinelFile(FileHome, 0, FALSE, 0, 0)
                       EXCEPT !.st_size_diff_from_cache_on =
                                  st_size_diff_from_cache_on]
    /\ fs = [p \in {FileHome} |-> 0]
    /\ ret = NoCall
    /\ uploading = [c \in Consumers |-> "idle"]
    /\ stat_succeeded = FALSE
    /\ delete_succeeded = FALSE
    /\ renames = 0
    /\ calls = 0

AwaitingStart == ClockInit(MaxFileTime) /\ AwaitingInit /\ HoldingDirectory

AwaitingNext ==
    \/ FileTick
    \/ \E size \in Sizes : Write(size)
    \/ update_stats
    \/ StSizeDiff
    \/ CheckInputComplete
    \/ \E c \in Consumers : ConsumerStarts(c)
    \/ \E c \in Consumers : UploadResume(c)
    \/ RenameSelf(NameT)
    \/ \E d \in DirPaths, rename_dup \in BOOLEAN : move_directories(d, rename_dup)

SpecAwaiting == AwaitingStart /\ [][AwaitingNext]_vars

\* ------------------------------------- a SentinelFile built from its slots
\* A SentinelFile built with the flags it is given (files/sentinel_file.py:
\* 82, 88, 128): input_complete and ready_for_upload as they were when the
\* object was written out.
RestoredInit ==
    /\ \E input_complete \in BOOLEAN, ready_for_upload \in BOOLEAN :
           file = [NewSentinelFile(FileHome, 0, input_complete, 0, 0)
                       EXCEPT !.ready_for_upload = ready_for_upload]
    /\ \E here \in SUBSET {FileHome} : fs \in [here -> {0}]
    /\ ret = NoCall
    /\ uploading = [c \in Consumers |-> "idle"]
    /\ stat_succeeded = FALSE
    /\ delete_succeeded = FALSE
    /\ renames = 0
    /\ calls = 0

RestoredStart == ClockInit(MaxFileTime) /\ RestoredInit /\ HoldingDirectory

RestoredNext ==
    \/ FileTick
    \/ \E size \in Sizes : Write(size)
    \/ update_stats
    \/ StSizeDiff
    \/ is_ready_for_box_upload
    \/ delete

SpecRestored == RestoredStart /\ [][RestoredNext]_vars

\* ------------------------------------------- the stat cache of a file
\* Largest value a stat field of the file takes.
MaxStat == 1
StatValues == 0..MaxStat

\* The fields of os.stat_result that the object caches: stats[6], stats[7],
\* stats[8] and stats[9] (files/sentinel_file.py:270, 278, 286, 294).
StatFields == {"st_size", "st_atime", "st_mtime", "st_ctime"}

\* The stat arguments of current_st_diff_from_cache
\* (files/sentinel_file.py:252-316).
StatNames == {"creation_time", "last_accessed_time", "last_modified_time",
              "size"}

\* The methods that pass them (files/sentinel_file.py:252-316).
DiffMethod(stat) ==
    CASE stat = "creation_time" -> "current_st_creation_time_diff_from_cache"
      [] stat = "last_accessed_time" -> "current_st_last_accessed_time"
      [] stat = "last_modified_time" ->
             "current_st_last_modified_time_diff_from_cache"
      [] stat = "size" -> "current_st_size_diff_from_cache"

\* st_creation_time, st_last_accessed_time and st_last_modified_time of a
\* new object (files/sentinel_file.py:90-92, 130-132).
NoTimes ==
    [st_creation_time |-> None, st_last_accessed_time |-> None,
     st_last_modified_time |-> None]

\* files/sentinel_file.py:240-250  current_stats, all four fields.
current_stats_all(f) ==
    IF f.file_path # NoPath /\ f.file_path \in DOMAIN fs
    THEN Some(fs[f.file_path])
    ELSE None

\* files/sentinel_file.py:257-304  current_st_diff_from_cache(stat): the
\* diff and the object after it.  The branch of last_modified_time stores
\* the new value in st_size (line 291).
current_st_diff_from_cache(f, stat) ==
    LET stats == current_stats_all(f)
        stamped == [f EXCEPT !.st_size_diff_from_cache_on = Some(clock)]
    IN  IF stats = None THEN [diff |-> Dict({}), file |-> stamped]
        ELSE CASE stat = "creation_time" ->
                 IF f.st_creation_time # Some(stats[1].st_ctime)
                 THEN [diff |-> Dict({stat}),
                       file |-> [stamped EXCEPT !.st_creation_time =
                                                   Some(stats[1].st_ctime)]]
                 ELSE [diff |-> Dict({}), file |-> stamped]
               [] stat = "last_accessed_time" ->
                 IF f.st_last_accessed_time # Some(stats[1].st_atime)
                 THEN [diff |-> Dict({stat}),
                       file |-> [stamped EXCEPT !.st_last_accessed_time =
                                                   Some(stats[1].st_atime)]]
                 ELSE [diff |-> Dict({}), file |-> stamped]
               [] stat = "last_modified_time" ->
                 IF f.st_last_modified_time # Some(stats[1].st_mtime)
                 THEN [diff |-> Dict({stat}),
                       file |-> [stamped EXCEPT !.st_size =
                                                   Some(stats[1].st_mtime)]]
                 ELSE [diff |-> Dict({}), file |-> stamped]
               [] stat = "size" ->
                 IF f.st_size # Some(stats[1].st_size)
                 THEN [diff |-> Dict({stat}),
                       file |-> [stamped EXCEPT !.st_size =
                                                   Some(stats[1].st_size)]]
                 ELSE [diff |-> Dict({}), file |-> stamped]

\* A new SentinelFile whose file exists, with some stats.
StatInit ==
    /\ file = NewSentinelFile(FileHome, 0, FALSE, 0, 0) @@ NoTimes
    /\ fs \in [{FileHome} -> [StatFields -> StatValues]]
    /\ ret = NoCall
    /\ uploading = [c \in Consumers |-> "idle"]
    /\ stat_succeeded = FALSE
    /\ delete_succeeded = FALSE
    /\ renames = 0
    /\ calls = 0

\* The file is written to, read or changed: one of its stats changes.
Touch(field, value) ==
    /\ file.file_path \in DOMAIN fs
    /\ fs[file.file_path][field] # value
    /\ fs_changes < MaxFsChanges
    /\ fs_changes' = fs_changes + 1
    /\ fs' = [fs EXCEPT ![file.file_path][field] = value]
    /\ ret' = NoCall
    /\ UNCHANGED <<limVars, config, sentinel_files, disk, events, scanVars,
                   files_at_start, since_start, file, uploading, histVars,
                   calls>>

\* files/sentinel_file.py:586-599  update_stats, all four fields.
UpdateStats ==
    LET stats == current_stats_all(file)
    IN  /\ file' = IF stats # None
                   THEN [file EXCEPT
                           !.st_size = Some(stats[1].st_size),
                           !.st_last_accessed_time = Some(stats[1].st_atime),
                           !.st_last_modified_time = Some(stats[1].st_mtime),
                           !.st_creation_time = Some(stats[1].st_ctime)]
                   ELSE file
        /\ stat_succeeded' = (stat_succeeded \/ stats # None)
        /\ ret' = Returned("update_stats", FALSE)
        /\ Call
        /\ UNCHANGED <<limVars, dirVars, fs, uploading, delete_succeeded,
                       renames>>

\* files/sentinel_file.py:252-316  await one of the four diff methods.
StDiff(stat) ==
    LET r == current_st_diff_from_cache(file, stat)
    IN  /\ file' = r.file
        /\ stat_succeeded' = (stat_succeeded \/ current_stats_all(file) # None)
        /\ ret' = Returned(DiffMethod(stat), Truthy(r.diff))
        /\ Call
        /\ UNCHANGED <<limVars, dirVars, fs, uploading, delete_succeeded,
                       renames>>

StatStart == ClockInit(0) /\ StatInit /\ HoldingDirectory

StatNext ==
    \/ \E field \in StatFields, value \in StatValues : Touch(field, value)
    \/ UpdateStats
    \/ \E stat \in StatNames : StDiff(stat)

SpecStat == StatStart /\ [][StatNext]_vars

\* ------------------------------------------------- the filter rules
\* Segments of the longest directory path handed to the rules.
MaxDepth == 3

\* File names whose prefix holds the letters of NameC in another order,
\* and in upper case.
NameBA == <<"b", "a", ".", "c">>
NameUpper == <<"A", "B", ".", "c">>
RuleNames == {NameC, NameT, NameBA, NameUpper}
\* Prefixes a SentinelDirectory is built to include (directory.py:50, 79).
Prefixes == {<<"a">>, <<"A">>}

\* Rule sets with and without included prefixes, ignored extensions and
\* ignored directories (directory.py:47-51, 76-80).
RuleConfigs ==
    {[NoRules EXCEPT !.included_file_prefix = included,
                     !.ignored_extensions = extensions,
                     !.ignored_directories = directories] :
        included \in SUBSET Prefixes,
        extensions \in {{}, {ExtT}},
        directories \in {{}, {SegS}}}

\* The paths of files and of directories that events carry.
RuleFilePaths == {Join(d, n) : d \in DirPaths, n \in RuleNames}
RuleDirPaths == UNION {[1..n -> {SegR, SegS}] : n \in 1..MaxDepth}

\* A SentinelDirectory built with some rule set, and a path at hand.
RulesInit ==
    /\ config \in RuleConfigs
    /\ scan_path \in RuleFilePaths \cup RuleDirPaths
    /\ sentinel_files = <<>>
    /\ disk = [p \in FilePaths |-> "absent"]
    /\ events = <<>>
    /\ fs_changes = 0
    /\ scan_pc = "idle"
    /\ scan_dirs = <<>>
    /\ scan_root = <<>>
    /\ scan_files = {}
    /\ new_sentinel_files = <<>>
    /\ files_at_start = <<>>
    /\ since_start = {}
    /\ prev_clean = FALSE

\* directory.py:126-153  validate_file_path(file_path) is called.
ValidateFilePath ==
    /\ scan_path \in RuleFilePaths
    /\ ret = NoCall
    /\ ret' = Returned("validate_file_path", validate_file_path(scan_path))
    /\ UNCHANGED <<limVars, dirVars, file, fs, uploading, histVars, calls>>

\* directory.py:155-164  validate_directory_path(directory_path) is called.
ValidateDirectoryPath ==
    /\ scan_path \in RuleDirPaths
    /\ ret = NoCall
    /\ ret' = Returned("validate_directory_path",
                       validate_directory_path(scan_path))
    /\ UNCHANGED <<limVars, dirVars, file, fs, uploading, histVars, calls>>

RulesStart == NoLimiter /\ RulesInit /\ NoFile

RulesNext ==
    \/ ValidateFilePath
    \/ ValidateDirectoryPath

SpecRules == RulesStart /\ [][RulesNext]_vars

\* ------------------------------------------------------ specifications
\* One caller, using either form of acquire on each call.
Init == LimiterInit(1, MaxTime) /\ NoDirectory /\ NoFile

Next ==
    \/ Tick
    \/ \E c \in Callers : Enter(c)
    \/ \E c \in Callers : AsyncEnter(c)
    \/ \E c \in Callers : limiter(c)
    \/ \E c \in Callers : async_limiter(c)
    \/ \E c \in Callers : Exit(c)

Spec == Init /\ [][Next]_vars

\* Threads calling the blocking form on one limiter (make_request).
ThreadsInit == LimiterInit(NumCallers, MaxSharedTime) /\ NoDirectory /\ NoFile

ThreadsNext ==
    \/ Tick
    \/ \E c \in Callers : Enter(c)
    \/ \E c \in Callers : limiter(c)
    \/ \E c \in Callers : Exit(c)

SpecThreads == ThreadsInit /\ [][ThreadsNext]_vars

\* Coroutines of one event loop calling the suspending form (request).
AsyncInit == LimiterInit(NumCallers, MaxSharedTime) /\ NoDirectory /\ NoFile

AsyncNext ==
    \/ Tick
    \/ \E c \in Callers : AsyncEnter(c)
    \/ \E c \in Callers : async_limiter(c)
    \/ \E c \in Callers : Exit(c)

SpecAsync == AsyncInit /\ [][AsyncNext]_vars

\* A SentinelDirectory under a changing file system: the observer thread
\* dispatches events while the scan runs.
DirectoryStart == NoLimiter /\ DirectoryInit /\ NoFile

DirectoryNext ==
    \/ \E p \in FilePaths, content \in {"ok", "bad"}, seen \in BOOLEAN :
           FsCreate(p, content, seen)
    \/ \E p \in FilePaths, content \in {"ok", "bad"}, seen \in BOOLEAN :
           FsModify(p, content, seen)
    \/ \E p \in FilePaths, seen \in BOOLEAN : FsDelete(p, seen)
    \/ \E p, q \in FilePaths, seen \in BOOLEAN : FsMove(p, q, seen)
    \/ \E kind \in DirEventKinds, d \in DirPaths : FsDirectory(kind, d)
    \/ dispatch
    \/ monitor_sentinel_files

SpecDirectory == DirectoryStart /\ [][DirectoryNext]_vars

\* ------------------------------------------------- RateLimiter claims
\* The last grant of the history was made after sleeping, with the window
\* before it full.
LateGrant ==
    /\ Len(grants) > rate_limit
    /\ grants[Len(grants)].waited
    /\ WindowCount(grants, grants[Len(grants)].at, rate_period) = rate_limit

\* C1: with a single caller, at every instant t the grant timestamps in
\* the closed trailing window [t - rate_period, t] number at most
\* rate_limit.
C1_WindowBound ==
    \A t \in 0..horizon : WindowCount(grants, t, rate_period) <= rate_limit

\* C1 witness: a window was filled and a later call had to wait for it.
C1_Witness == Cardinality(callers) = 1 /\ LateGrant

\* C2: with several threads in the blocking acquire, whose steps
\* interleave, the grant timestamps in any trailing window still number at
\* most rate_limit.
C2_ConcurrentWindowBound ==
    Cardinality(callers) > 1 =>
        \A t \in 0..horizon : WindowCount(grants, t, rate_period) <= rate_limit

\* C3 (as claimed): the calls admitted through the limiter and not yet
\* completed number at most rate_limit.
C3_InFlightBound == Cardinality(InFlight) <= rate_limit

\* C3 (amended): of the calls coroutines of one event loop have in flight,
\* those admitted within the trailing rate_period number at most
\* rate_limit.
C3_RecentInFlightBound ==
    Cardinality({c \in InFlight : clock - stamp[c] <= rate_period})
        <= rate_limit

\* C3 witness: more calls are in flight than rate_limit, because one has
\* outlasted the period.
C3_Witness ==
    /\ Cardinality(InFlight) > rate_limit
    /\ Cardinality({c \in InFlight : clock - stamp[c] <= rate_period})
           = rate_limit

\* C4: no acquire call fails (and each is eventually granted).
C4_NoAcquireFails == \A c \in callers : pc[c] # "failed"

\* C5: a grant made when rate_limit grants precede it comes at least
\* rate_period after the oldest of the rate_limit grants before it, and
\* the first rate_limit grants are made without waiting.
C5_FullWindowDelays ==
    \A i \in DOMAIN grants :
        /\ i > rate_limit =>
               grants[i].at - grants[i - rate_limit].at >= rate_period
        /\ i <= rate_limit => ~grants[i].waited

\* C5 witness: rate_limit = 2, rate_period = 1, three calls back to back:
\* two granted at once, the third after waiting, a period after the first.
C5_Witness ==
    /\ rate_limit = 2 /\ rate_period = 1
    /\ Len(grants) = 3
    /\ grants[1].at = grants[2].at
    /\ ~grants[1].waited /\ ~grants[2].waited
    /\ grants[3].waited
    /\ grants[3].at >= grants[1].at + 1

\* C6: the two forms admit alike.  Beside a single caller mixing both
\* forms runs a reference limiter that is given every call through the
\* suspending form: whenever the caller is not in the middle of pruning,
\* both hold the same pending sequence, the blocking form grants exactly
\* when the reference has capacity, and both have granted at the same
\* times.
C6_SameAdmission ==
    /\ Times(shadow_grants) = Times(grants)
    /\ \A c \in callers :
        /\ pc[c] \notin {"while", "cmp", "pop"} => request_pool = shadow_pool
        /\ pc[c] \in {"stamp", "append"} =>
               AsyncHasCapacity(shadow_pool, rate_limit)
        /\ pc[c] = "sleep" => ~AsyncHasCapacity(shadow_pool, rate_limit)

\* C6 witness: a blocking call is granted after waiting on a window that
\* a suspending call filled.
C6_Witness ==
    /\ LateGrant
    /\ forms_granted = {"sync", "async"}
    /\ \E c \in callers : pc[c] = "granted" /\ form[c] = "sync"

\* ---------------------------------------------------- registry claims
\* C7: no two entries of the registry have the same file name.
C7_UniqueNames ==
    \A i, j \in DOMAIN sentinel_files :
        i # j => sentinel_files[i].file_name # sentinel_files[j].file_name

\* C8: under every interleaving of a scan with dispatched events, no two
\* entries of the registry have the same path.
C8_UniquePaths ==
    \A i, j \in DOMAIN sentinel_files :
        i < j => sentinel_files[i].file_path # sentinel_files[j].file_path

\* The scan has walked the whole tree and is about to return.
ScanFinished == scan_pc = "done"

\* Every file on disk that passes validate_file_path and can be built has
\* an entry.
AllTracked ==
    \A p \in FilePaths :
        disk[p] = "ok" /\ validate_file_path(p) => p \in sentinel_files_paths

\* C9: a scan that follows another with no file system change and no
\* event dispatched since the first one started returns an empty list and
\* leaves the registry as it found it.
C9_ScanIdempotent ==
    ScanFinished /\ prev_clean /\ since_start = {} =>
        /\ new_sentinel_files = <<>>
        /\ sentinel_files = files_at_start

\* C9 witness: the second of two such scans finishes over a registry that
\* tracks two files, beside a file no sentinel file can be built from.
C9_Witness ==
    /\ ScanFinished /\ prev_clean /\ since_start = {}
    /\ Len(sentinel_files) >= 2
    /\ \E p \in FilePaths : disk[p] = "bad" /\ validate_file_path(p)

\* C10 (as claimed): when a scan finishes with no file system change since
\* it started, every trackable file that can be built has an entry, and
\* the returned entries are trackable files of the tree.
C10_ScanComplete ==
    ScanFinished /\ "fs" \notin since_start =>
        /\ AllTracked
        /\ \A i \in DOMAIN new_sentinel_files :
               /\ new_sentinel_files[i].file_path \in FilePaths
               /\ validate_file_path(new_sentinel_files[i].file_path)

\* C10 (amended): when a scan finishes with no file system change and no
\* entry removed by a dispatched event since it started, every trackable
\* file that can be built has an entry and the returned entries are
\* trackable files of the tree; with no event dispatched at all, the
\* registry is the registry the scan found followed by the returned list.
C10_ScanCompleteUnlessRemoved ==
    ScanFinished /\ "fs" \notin since_start /\ "removal" \notin since_start =>
        /\ AllTracked
        /\ \A i \in DOMAIN new_sentinel_files :
               /\ new_sentinel_files[i].file_path \in FilePaths
               /\ validate_file_path(new_sentinel_files[i].file_path)
        /\ "dispatch" \notin since_start =>
               sentinel_files = files_at_start \o new_sentinel_files

\* C10 witness: a scan finishes having added a file of the sub-directory
\* while an event was dispatched during it, with an untrackable file and
\* an unbuildable file on disk.
C10_Witness ==
    /\ ScanFinished
    /\ since_start = {"dispatch"}
    /\ \E i \in DOMAIN new_sentinel_files :
           Split(new_sentinel_files[i].file_path)[1] = SubPath
    /\ \E p \in FilePaths : disk[p] # "absent" /\ ~validate_file_path(p)

\* ---------------------------------------------------- dispatch claims
\* C11: dispatching an event that fails validation (a directory event whose
\* path fails validate_directory_path, a file event whose path fails
\* validate_file_path) leaves the registry as it was.
C11_InvalidEventDropped ==
    [][(/\ events # <<>>
        /\ events' = Tail(events)
        /\ LET event == Head(events)
           IN  \/ /\ event.kind \in DirEventKinds
                  /\ ~validate_directory_path(event.src_path)
               \/ /\ event.kind \in FileEventKinds
                  /\ ~validate_file_path(event.src_path))
       => sentinel_files' = sentinel_files]_vars

\* C11 witness: with the extension .t ignored, an event was dropped while
\* r/ab.t is on disk, buildable and not tracked.
C11_Witness ==
    /\ "dropped" \in since_start
    /\ ExtT \in config.ignored_extensions
    /\ disk[<<SegR, NameT>>] = "ok"
    /\ <<SegR, NameT>> \notin sentinel_files_paths
    /\ sentinel_files # <<>>

\* C12: dispatching a valid FileDeleted event whose file name has an entry
\* leaves no entry with that name and removes one entry only; when no entry
\* has the name the registry is unchanged.
C12_DeletedNameGone ==
    [][(/\ events # <<>>
        /\ events' = Tail(events)
        /\ Head(events).kind = "FileDeleted"
        /\ validate_file_path(Head(events).src_path))
       => LET name == event_path_postfix(Head(events))
              before == sentinel_files
              after == sentinel_files'
          IN  IF \E i \in DOMAIN before : before[i].file_name = name
              THEN /\ \A i \in DOMAIN after : after[i].file_name # name
                   /\ \E i \in DOMAIN before : after = RemoveAt(before, i)
              ELSE after = before]_vars

C14_EligibleIffAllFour ==
    [][(ret'.op = "is_ready_for_box_upload" /\ ~ret'.raised)
       => (ret'.value <=>
              /\ ~file.deleted
              /\ ~Truthy(current_st_size_diff_from_cache(file).diff)
              /\ file.input_complete
              /\ check_min_elapsed_for_box_upload(file))]_vars

\* ---------------------------------------------------------------- C15
\* C15: when several consumers each start upload_to_box for the file only
\* if it is listed as uploadable, no two upload attempts of the file are in
\* progress at once.
C15_OneAttemptPerFile ==
    Cardinality({c \in Consumers : uploading[c] # "idle"}) <= 1

\* ---------------------------------------------------------------- C16
\* C16: check_ready_for_delete returns true if and only if the file is not
\* deleted and the time elapsed since directory_entry_on exceeds
\* min_elapsed_for_delete, for every threshold including the default 0; and
\* after the evaluation ready_for_delete equals the value returned.
C16_DeleteEligibility ==
    ret.op = "check_ready_for_delete" =>
        /\ ret.value <=>
               /\ ~file.deleted
               /\ clock - file.directory_entry_on[1] > file.min_elapsed_for_delete
        /\ file.ready_for_delete = ret.value

\* The query has returned true under the default threshold.
C16_Witness ==
    /\ ret.op = "check_ready_for_delete"
    /\ ret.value
    /\ file.ready_for_delete
    /\ file.min_elapsed_for_delete = 0

\* ---------------------------------------------------------------- C17
\* C17: in every state a SentinelFile with deleted = true has file_path =
\* None and is no entry of the sentinel_files of the directory that held
\* it.
C17_DeletedUnlisted ==
    file.deleted => file.file_path = NoPath /\ sentinel_files = <<>>

\* ---------------------------------------------------------------- C18
\* C18: once delete has succeeded, every later query on the object reports
\* false (is_ready_for_box_upload, check_ready_for_delete,
\* upload_to_box_failed), whatever was called in between, and the lookup
\* of its name in the directory finds nothing.
C18_DeletedReportsNothing ==
    delete_succeeded =>
        /\ ret.op \in {"is_ready_for_box_upload", "check_ready_for_delete",
                       "upload_to_box_failed"} => ~ret.value
        /\ sentinel_file_from_file_name(file.file_name) = 0

\* ---------------------------------------------------------------- C19
\* C19: a successful delete sets deleted, stamps deleted_on and clears
\* file_path, and no later operation (update_stats, a stat diff, a move, a
\* rename, an upload attempt) sets deleted back to false or gives the
\* object a file_path again.
C19_DeleteIrreversible ==
    delete_succeeded =>
        /\ file.deleted
        /\ file.deleted_on # None
        /\ file.file_path = NoPath

\* A move has been tried on the object after its delete succeeded.
C19_Witness ==
    /\ delete_succeeded
    /\ ret.op = "move_directories"
    /\ ~ret.value
    /\ file.deleted

\* ---------------------------------------------------------------- C20
\* C20: a move_directories that returns true leaves file_path at the
\* file's new location, directory_entry_on at the time of the move and
\* current_directory at the destination directory, and changes neither id
\* nor initial_monitor_on.
C20_MoveUpdatesPath ==
    [][(ret'.op = "move_directories" /\ ret'.value)
       => /\ file'.file_path = Join(ret'.dest, file'.file_name)
          /\ file'.directory_entry_on = Some(clock')
          /\ file'.current_directory = Some(Basename(ret'.dest))
          /\ file'.id = file.id
          /\ file'.initial_monitor_on = file.initial_monitor_on]_vars

\* ---------------------------------------------------------------- C21
\* C21: a move of a file that exists into another directory that holds a
\* file of its name, with rename_dup, returns true; file_name becomes
\* "<timestamp>-<old name>", file_path the new location of the file, id is
\* unchanged, and sentinel_files gains and loses no entry.
C21_MoveRenamesDuplicate ==
    [][(/\ ret'.op = "move_directories"
        /\ ret'.rename_dup
        /\ file.file_path # NoPath
        /\ IsFile(file.file_path)
        /\ Join(ret'.dest, file.file_name) # file.file_path
        /\ Exists(Join(ret'.dest, file.file_name)))
       => /\ ret'.value
          /\ file'.file_name = Stamped(clock, file.file_name)
          /\ file'.file_path = Join(ret'.dest, Stamped(clock, file.file_name))
          /\ file'.id = file.id
          /\ Len(sentinel_files') = Len(sentinel_files)]_vars

\* ---------------------------------------------------------------- C22
\* C22: a move into a directory that holds a file of the same name,
\* without rename_dup, fails with the duplicate-name error, which reaches
\* the caller; the file is not moved and file_name, file_path,
\* directory_entry_on and current_directory are unchanged.
C22_DuplicateErrorRaised ==
    [][(/\ ret'.op = "move_directories"
        /\ ~ret'.rename_dup
        /\ Exists(Join(ret'.dest, file.file_name)))
       => /\ ret'.raised
          /\ fs' = fs
          /\ file'.file_name = file.file_name
          /\ file'.file_path = file.file_path
          /\ file'.directory_entry_on = file.directory_entry_on
          /\ file'.current_directory = file.current_directory]_vars

\* ---------------------------------------------------------------- C23
\* C23: when the file system call under update_stats, the size diff,
\* move_directories (its rename of a duplicate included) or delete fails,
\* the call reports failure without raising and every field of the object
\* is what it was before the call.
C23_FailureLeavesState ==
    [][(\/ /\ ret'.op \in {"update_stats", "current_st_size_diff_from_cache"}
           /\ current_stats(file) = None
        \/ /\ ret'.op \in {"move_directories", "delete"}
           /\ ~ret'.value)
       => ~ret'.raised /\ file' = file]_vars

\* ---------------------------------------------------------------- C24
\* C24: when the sentinel file cannot be built, the FileCreated handler
\* adds no entry and returns; a scan adds no entry for the file and goes on
\* with the rest of the walk, so that a scan finishing with nothing else
\* having happened since it started has added and returned every other
\* trackable file that can be built, and nothing for the files that cannot.
C24_ConstructionFailureSkipped ==
    [][/\ (/\ events # <<>>
           /\ events' = Tail(events)
           /\ Head(events).kind = "FileCreated"
           /\ validate_file_path(Head(events).src_path)
           /\ disk[Head(events).src_path] = "bad")
          => sentinel_files' = sentinel_files
       /\ (/\ scan_pc = "construct"
           /\ scan_pc' # "construct"
           /\ disk[scan_path] = "bad")
          => /\ sentinel_files' = sentinel_files
             /\ new_sentinel_files' = new_sentinel_files
             /\ scan_pc' = "files"
             /\ scan_files' = scan_files
             /\ scan_dirs' = scan_dirs
       /\ (scan_pc # "done" /\ scan_pc' = "done" /\ since_start' = {})
          => /\ AllTracked'
             /\ sentinel_files' = files_at_start' \o new_sentinel_files'
             /\ \A i \in DOMAIN new_sentinel_files' :
                    disk'[new_sentinel_files'[i].file_path] = "ok"]_vars

\* C24 witness: a scan finishes, with nothing else having happened since it
\* started, over a tree whose root holds a trackable file that cannot be
\* built; the file has no entry, and a file of the sub-directory, walked
\* after it, was added and is returned.
C24_Witness ==
    /\ ScanFinished
    /\ since_start = {}
    /\ disk[<<SegR, NameC>>] = "bad"
    /\ validate_file_path(<<SegR, NameC>>)
    /\ <<SegR, NameC>> \notin sentinel_files_paths
    /\ \E i \in DOMAIN new_sentinel_files :
           new_sentinel_files[i].file_path = <<SegR, SegS, NameC>>

\* ---------------------------------------------------------------- C25
\* C25: uploadable_sentinel_files lists an entry only if the upload
\* eligibility holds of it when the list is taken: the file is not
\* deleted, its size shows no diff from the cache, it is input_complete and
\* its last upload attempt is not more recent than
\* min_elapsed_for_box_upload_attempt.
C25_UploadQueryExact ==
    (ret.op = "uploadable_sentinel_files" /\ ret.value) =>
        /\ ~file.deleted
        /\ ~Truthy(current_st_size_diff_from_cache(file).diff)
        /\ check_input_complete(file).value
        /\ check_min_elapsed_for_box_upload(file)

\* ---------------------------------------------------------------- C26
\* C26: upload_to_box_failed returns true exactly when the file is not
\* deleted and the time elapsed since initial_monitor_on exceeds
\* min_elapsed_for_box_upload_fail; and once it has returned true for a
\* file that is not deleted, it returns true at every later time.
C26_UploadFailedByAge ==
    [][(ret'.op = "upload_to_box_failed" /\ calls' # calls)
       => /\ ret'.value <=>
                 /\ ~file.deleted
                 /\ ElapsedSince(file.initial_monitor_on)
                        > file.min_elapsed_for_box_upload_fail
          /\ (/\ ret.op = "upload_to_box_failed"
              /\ ret.value
              /\ ~file.deleted) => ret'.value]_vars

\* ---------------------------------------------------------------- C27
\* C27: input_complete becomes true only when the size has shown no diff
\* for min_elapsed_for_input_complete seconds: a check_input_complete made
\* on a file that was written to, and whose size was seen to differ from
\* the cache less than min_elapsed_for_input_complete seconds before,
\* returns false and leaves input_complete false.
C27_InputCompleteAfterWindow ==
    [][(/\ ret'.op = "check_input_complete"
        /\ ret.op = "current_st_size_diff_from_cache"
        /\ ret.value
        /\ fs_changes > 0
        /\ ~file.input_complete
        /\ ElapsedSince(file.st_size_diff_from_cache_on)
               < file.min_elapsed_for_input_complete)
       => ~ret'.value /\ ~file'.input_complete]_vars

\* ---------------------------------------------------------------- C28
\* Whether str starts with sub.
StartsWith(sub, str) ==
    Len(sub) <= Len(str) /\ SubSeq(str, 1, Len(sub)) = sub

\* C28: with a non-empty included_file_prefix, validate_file_path accepts
\* a path that the ignore rules do not reject if and only if the name of
\* the file, compared without regard to case, starts with one of the
\* prefixes.
C28_PrefixIsNameStart ==
    LET file_name == Split(scan_path)[2]
    IN  (/\ ret.op = "validate_file_path"
         /\ config.included_file_prefix # {}
         /\ file_name \notin config.ignored_files
         /\ Splitext(file_name)[2] \notin config.ignored_extensions)
        => (ret.value <=>
                \E included \in config.included_file_prefix :
                    StartsWith(Lower(included), Lower(file_name)))

\* ---------------------------------------------------------------- C29
\* C29: validate_directory_path returns false if and only if some segment
\* of the path, at any depth, is one of ignored_directories.
C29_IgnoredAtAnyDepth ==
    ret.op = "validate_directory_path" =>
        (~ret.value <=>
             \E i \in DOMAIN scan_path :
                 scan_path[i] \in config.ignored_directories)

\* ---------------------------------------------------------------- C30
\* C30: after every call of is_ready_for_box_upload, ready_for_upload
\* equals the value the call returned.
C30_FlagIsLastEvaluation ==
    (ret.op = "is_ready_for_box_upload" /\ ~ret.raised) =>
        file.ready_for_upload = ret.value

\* ---------------------------------------------------------------- C31
\* The cached value and the stat field behind each stat argument.
Cached(f, stat) ==
    CASE stat = "creation_time" -> f.st_creation_time
      [] stat = "last_accessed_time" -> f.st_last_accessed_time
      [] stat = "last_modified_time" -> f.st_last_modified_time
      [] stat = "size" -> f.st_size
Current(stats, stat) ==
    CASE stat = "creation_time" -> stats.st_ctime
      [] stat = "last_accessed_time" -> stats.st_atime
      [] stat = "last_modified_time" -> stats.st_mtime
      [] stat = "size" -> stats.st_size

\* C31: a stat diff of one field, on a successful stat, reports a diff
\* exactly when the cached value of the field differs from the current
\* one; after it the cached value of the field is the current one and the
\* cached values of the other three fields are as before.
C31_StatDiffUpdatesItsField ==
    [][\A stat \in StatNames :
          (/\ ret'.op = DiffMethod(stat)
           /\ calls' # calls
           /\ current_stats_all(file) # None)
          => /\ ret'.value <=>
                    Cached(file, stat) # Some(Current(fs[file.file_path], stat))
             /\ Cached(file', stat) = Some(Current(fs[file.file_path], stat))
             /\ \A other \in StatNames \ {stat} :
                    Cached(file', other) = Cached(file, other)]_vars

\* ---------------------------------------------------------------- C32
\* C32: the dispatch of a valid FileModified, FileMoved, DirCreated,
\* DirDeleted, DirModified or DirMoved event leaves sentinel_files, its
\* entries and their order, as it was; a dispatch that changes
\* sentinel_files is one of a FileCreated or a FileDeleted event.
C32_OtherEventsLeaveRegistry ==
    [][(/\ events # <<>>
        /\ events' = Tail(events)
        /\ validate_event_for_handlers(Head(events))
        /\ Head(events).kind \notin {"FileCreated", "FileDeleted"})
       => sentinel_files' = sentinel_files]_vars

\* C32 witness: a tracked file was rewritten with content the file type
\* fails on, which is the one change of the file system, and the
\* FileModified event of that change was dispatched and not dropped; the
\* entry is still there.
C32_Witness ==
    /\ fs_changes = 1
    /\ events = <<>>
    /\ "dispatch" \in since_start
    /\ "dropped" \notin since_start
    /\ \E i \in DOMAIN sentinel_files :
           disk[sentinel_files[i].file_path] = "bad"

\* ---------------------------------------------------------------- C33
\* C33: when a consumer starts an upload of a file that the directory lists
\* as uploadable, with no attempt in progress, and the file was attempted
\* before, more than min_elapsed_for_box_upload_attempt seconds have passed
\* since that attempt, whether it succeeded or failed.
C33_AttemptsSpacedOut ==
    [][(/\ \A c \in Consumers : uploading[c] = "idle"
        /\ file.attempted_upload_to_box_on # None
        /\ calls' # calls
        /\ \/ ret'.op = "upload_to_box"
           \/ \E c \in Consumers : uploading'[c] # "idle")
       => ElapsedSince(file.attempted_upload_to_box_on)
              > file.min_elapsed_for_box_upload_attempt]_vars

\* ---------------------------------------------------------------- C34
\* C34: with several threads in _limiter, request_pool is ordered oldest
\* first in every state: no timestamp is behind a later one.
C34_PoolOrdered ==
    \A i, j \in DOMAIN request_pool :
        i < j => request_pool[i] <= request_pool[j]

\* ---------------------------------------------------------------- C35
\* C35: a caller of make_request is in the body of the with block, where
\* the request is issued, only after its acquire has appended its grant;
\* and the callers in the body whose grants were stamped within the last
\* rate_period number at most rate_limit.
C35_RequestsFollowGrants ==
    /\ \A c \in callers :
           pc[c] = "granted" =>
               \E i \in DOMAIN grants : grants[i].at = stamp[c]
    /\ Cardinality({c \in callers : /\ pc[c] = "granted"
                                    /\ clock - stamp[c] <= rate_period})
           <= rate_limit

\* ---------------------------------------------------------------- C36
\* C36: in every state the file_path of a SentinelFile that is not deleted
\* ends in its file_name.
C36_PathEndsInName ==
    (~file.deleted /\ file.file_path # NoPath) =>
        Basename(file.file_path) = file.file_name

\* ---------------------------------------------------------------- C37
\* C37: once the file is uploaded_to_box, no query for upload eligibility
\* (is_ready_for_box_upload on the object, uploadable_sentinel_files on its
\* directory) returns true for it, and no consumer starts another upload
\* of it.
C37_UploadedNotEligibleAgain ==
    [][(file.uploaded_to_box /\ calls' # calls)
       => /\ ret'.op \in {"is_ready_for_box_upload",
                          "uploadable_sentinel_files"} => ~ret'.value
          /\ ret'.op # "upload_to_box"
          /\ \A c \in Consumers : uploading'[c] = uploading[c]]_vars

\* ---------------------------------------------------------------- C38
\* C38: in every state no entry of sentinel_files has a file_path with a
\* directory segment that is one of ignored_directories.
C38_NothingUnderIgnored ==
    \A i \in DOMAIN sentinel_files :
        LET head == Split(sentinel_files[i].file_path)[1]
        IN  \A k \in DOMAIN head : head[k] \notin config.ignored_directories

\* ---------------------------------------------------------------- C39
\* C39: the dispatch of a valid FileDeleted event for a path removes no
\* entry of another path, and leaves no entry of that path.
C39_DeleteRemovesThatPath ==
    [][(/\ events # <<>>
        /\ events' = Tail(events)
        /\ Head(events).kind = "FileDeleted"
        /\ validate_event_for_handlers(Head(events)))
       => /\ \A i \in DOMAIN sentinel_files :
                 sentinel_files[i].file_path # Head(events).src_path
                     => sentinel_files[i].file_path \in sentinel_files_paths'
          /\ Head(events).src_path \notin sentinel_files_paths']_vars

\* ---------------------------------------------------------------- C40
\* C40: once input_complete is true, every operation leaves it true (a
\* size diff that finds a change, update_stats, a move, a rename, an upload
\* attempt), and every check_input_complete returns true, whatever time
\* has elapsed.
C40_InputCompleteMonotone ==
    [][file.input_complete
       => /\ file'.input_complete
          /\ (ret'.op = "check_input_complete" /\ calls' # calls)
                 => ret'.value /\ ~ret'.raised]_vars

\* C40 witness: the object was built without input_complete, so
\* check_input_complete has set it; the file was then written to, and the
\* size diff made after that found the change; input_complete is true.
C40_Witness ==
    /\ file.input_complete
    /\ fs_changes > 0
    /\ ret.op = "current_st_size_diff_from_cache"
    /\ ret.value

====
